---- MODULE Spec2Model ----
(***************************************************************************)
(* Model of src/import_utils.py: the import scanner.                       *)
(*                                                                         *)
(* Text is modelled as a sequence of tokens.  A token is either one of the *)
(* single characters the code looks at ("\n", " ", "%", "!", "?", ".",     *)
(* ",", ":", "(", ")") or a word, a maximal run of letters.  The regular   *)
(* expressions and the first-character tests of the code only distinguish  *)
(* these classes, so a word behaves as its first letter followed by        *)
(* characters that are not a newline.                                      *)
(***************************************************************************)
EXTENDS Integers, Sequences, FiniteSets, TLC

NL == "\n"
SP == " "

\* Tokens that are runs of letters [a-zA-Z]+.
Words ==
    {"import", "from", "as", "try", "except", "if", "pass",
     "while", "for", "in", "def", "class",
     "a", "b", "c", "x", "os", "sys", "math", "json", "ujson",
     "helper", "bash", "ls", "time", "path"}

IsLetter(t) == t \in Words

\* \s of the re module, over the characters of the model.
IsSpace(t) == t \in {SP, NL}

(***************************************************************************)
(* Sequence helpers.                                                       *)
(***************************************************************************)
Drop(s, n) == SubSeq(s, n + 1, Len(s))

Take(s, n) == SubSeq(s, 1, n)

Range(s) == {s[k] : k \in 1..Len(s)}

RECURSIVE Concat(_)
\* ''.join(list of strings)
Concat(ss) == IF ss = <<>> THEN <<>> ELSE Head(ss) \o Concat(Tail(ss))

RECURSIVE FindFrom(_, _, _)
\* Position of the first token t in s at or after p, or 0.
FindFrom(s, t, p) ==
    IF p > Len(s) THEN 0
    ELSE IF s[p] = t THEN p
    ELSE FindFrom(s, t, p + 1)

\* s.find(t) + 1
Find(s, t) == FindFrom(s, t, 1)

StartsWith(s, prefix) ==
    Len(s) >= Len(prefix) /\ Take(s, Len(prefix)) = prefix

(***************************************************************************)
(* The two regular expressions of main:                                    *)
(*     \n\s*%[a-zA-Z][^\n]*      and      \n\s*![^\n]*                     *)
(* lead is "%" or "!"; after "%" a letter is required.                     *)
(***************************************************************************)
RECURSIVE SkipSpace(_, _)
\* \s* is greedy: the first position >= q that holds no whitespace.
SkipSpace(s, q) ==
    IF q <= Len(s) /\ IsSpace(s[q]) THEN SkipSpace(s, q + 1) ELSE q

RECURSIVE LineEnd(_, _)
\* [^\n]* from position q: the last position before the next newline.
LineEnd(s, q) ==
    IF q <= Len(s) /\ s[q] # NL THEN LineEnd(s, q + 1) ELSE q - 1

\* Whether position q holds the lead of the pattern: % and a letter, or !.
LeadAt(s, q, lead) ==
    /\ q <= Len(s)
    /\ s[q] = lead
    /\ lead = "%" => (q + 1 <= Len(s) /\ IsLetter(s[q + 1]))

\* Whether the pattern up to its lead matches at position p
\* (what re.search looks for).
MatchesAt(s, p, lead) ==
    /\ p <= Len(s)
    /\ s[p] = NL
    /\ LeadAt(s, SkipSpace(s, p + 1), lead)

\* The last position of the match of the whole pattern at p.
MatchEnd(s, p, lead) == LineEnd(s, SkipSpace(s, p + 1) + 1)

re_search(s, lead) == \E p \in 1..Len(s) : MatchesAt(s, p, lead)

RECURSIVE re_sub_from(_, _, _)
\* re.sub(pattern, '', s): leftmost matches, left to right, not overlapping.
re_sub_from(s, p, lead) ==
    IF p > Len(s) THEN <<>>
    ELSE IF MatchesAt(s, p, lead)
         THEN re_sub_from(s, MatchEnd(s, p, lead) + 1, lead)
         ELSE <<s[p]>> \o re_sub_from(s, p + 1, lead)

re_sub(s, lead) == re_sub_from(s, 1, lead)

\* if re.search(pattern, contents): contents = re.sub(pattern, '', contents)
StripLead(contents, lead) ==
    IF re_search(contents, lead) THEN re_sub(contents, lead) ELSE contents

\* main, lines 174-178: "Remove lines that start with '%' or '!'".
StripMagics(contents) == StripLead(StripLead(contents, "%"), "!")

(***************************************************************************)
(* Notebook extraction, main lines 165-171.  A notebook document is        *)
(* [json_ok, has_cells, cells]; a cell is [cell_type, source] with source  *)
(* a list of strings (the lines of the cell).                              *)
(***************************************************************************)
\* s[0] not in ('!', '%', '?')
KeepLine(s) == s[1] \notin {"!", "%", "?"}

\* cell_src = ''.join([s for s in cell['source'] if s[0] not in (...)])
CellSrc(cell) == Concat(SelectSeq(cell.source, KeepLine))

\* Lines 170-171: what a code cell with text cell_src adds to contents.
AddCellSrc(cell_src) ==
    IF ~StartsWith(cell_src, <<"%", "%">>) THEN cell_src \o <<NL>> ELSE <<>>

RECURSIVE NotebookContents(_)
\* The loop over nb_json['cells'].
NotebookContents(cells) ==
    IF cells = <<>> THEN <<>>
    ELSE (IF Head(cells).cell_type = "code"
          THEN AddCellSrc(CellSrc(Head(cells)))
          ELSE <<>>)
         \o NotebookContents(Tail(cells))

\* s[0] of an empty string raises IndexError.
HasEmptyLine(cells) ==
    \E k \in 1..Len(cells) :
        /\ cells[k].cell_type = "code"
        /\ \E j \in 1..Len(cells[k].source) : cells[k].source[j] = <<>>

\* The exception the extraction of file f raises, or "none".
ExtractError(f) ==
    IF ~f.readable THEN "OSError"
    ELSE IF ~f.is_ipynb THEN "none"
    ELSE IF ~f.nb.json_ok THEN "JSONDecodeError"
    ELSE IF ~f.nb.has_cells THEN "KeyError"
    ELSE IF HasEmptyLine(f.nb.cells) THEN "IndexError"
    ELSE "none"

\* contents before the stripping, lines 163-173.
RawContents(f) ==
    IF f.is_ipynb THEN NotebookContents(f.nb.cells) ELSE f.text

(***************************************************************************)
(* ast.parse (line 180) for the statements the scanner distinguishes:      *)
(*     import NAME[ as ID][, ...]      from [.]*[NAME] import ID[, ...]    *)
(*     try: / except[ ID]: / if ID:    blocks with an indented body        *)
(*     while ID: / for ID in ID:       blocks with an indented body        *)
(*     def ID(): / class ID:           blocks with an indented body        *)
(*     ID | pass                       any other simple statement          *)
(* Anything else, a magic or shell line included, is a SyntaxError, as is  *)
(* bad indentation.  A node is a record                                    *)
(* [type, names, module, level, lineno, col_offset, body, handlers].       *)
(***************************************************************************)
Keywords ==
    {"import", "from", "as", "try", "except", "if", "pass", "while", "for",
     "in", "def", "class"}

IsIdent(t) == t \in Words \ Keywords

\* s.split(sep), with the position of the first sep given.
RECURSIVE SplitOn(_, _)
RECURSIVE SplitAt(_, _, _)
SplitAt(s, sep, p) ==
    IF p = 0 THEN <<s>>
    ELSE <<Take(s, p - 1)>> \o SplitOn(Drop(s, p), sep)

\* s.split(sep)
SplitOn(s, sep) == SplitAt(s, sep, Find(s, sep))

\* A dotted name: ID(.ID)*
IsDotted(ts) ==
    /\ Len(ts) % 2 = 1
    /\ \A k \in 1..Len(ts) :
          IF k % 2 = 1 THEN IsIdent(ts[k]) ELSE ts[k] = "."

RECURSIVE CountLead(_, _)
\* Number of leading tokens t of s.
CountLead(s, t) ==
    IF s # <<>> /\ Head(s) = t THEN 1 + CountLead(Tail(s), t) ELSE 0

TrimLeft(s) == Drop(s, CountLead(s, SP))

\* NAME of the alias t, "NAME" or "NAME as ID", whose first blank is at p
\* (<<>> when malformed).
AliasAt(t, p) ==
    IF p = 0 THEN (IF IsDotted(t) THEN t ELSE <<>>)
    ELSE IF /\ IsDotted(Take(t, p - 1))
            /\ Len(t) = p + 3
            /\ t[p + 1] = "as" /\ t[p + 2] = SP /\ IsIdent(t[p + 3])
         THEN Take(t, p - 1)
         ELSE <<>>

AliasOf(t) == AliasAt(t, Find(t, SP))

AliasName(part) == AliasOf(TrimLeft(part))

NamesOf(parts) == [k \in 1..Len(parts) |-> AliasName(parts[k])]

\* The names of a comma-separated list of aliases.
AliasNames(ts) == NamesOf(SplitOn(ts, ","))

Node(type, names, module, level, lineno, col, body, handlers) ==
    [type |-> type, names |-> names, module |-> module, level |-> level,
     lineno |-> lineno, col_offset |-> col, body |-> body,
     handlers |-> handlers]

\* "from" statement: t2 is the text after "from " and the dots, p the
\* position of its first blank.
FromSplit(level, t2, p) ==
    [ok |-> p > 0, level |-> level, module |-> Take(t2, p - 1),
     imp |-> Drop(t2, p)]

FromLevel(t, level) ==
    FromSplit(level, Drop(t, level), Find(Drop(t, level), SP))

\* The parts [ok, level, module, imp] of the statement "from ..." r.
FromParts(r) == FromLevel(Drop(r, 2), CountLead(Drop(r, 2), "."))

AllNames(names) == \A n \in Range(names) : n # <<>>

AllSimpleNames(names) == \A n \in Range(names) : Len(n) = 1

FromOk(f) ==
    /\ f.ok
    /\ (IF f.module = <<>> THEN f.level > 0 ELSE IsDotted(f.module))
    /\ Len(f.imp) >= 3 /\ f.imp[1] = "import" /\ f.imp[2] = SP
    /\ AllSimpleNames(AliasNames(Drop(f.imp, 2)))

\* The kind of the statement a line's text r (indentation removed) is.
StmtKind(r) ==
    IF r = <<>> THEN "error"
    ELSE IF r[1] = "import" THEN
        IF Len(r) >= 3 /\ r[2] = SP /\ AllNames(AliasNames(Drop(r, 2)))
        THEN "Import" ELSE "error"
    ELSE IF r[1] = "from" THEN
        IF Len(r) >= 3 /\ r[2] = SP /\ FromOk(FromParts(r))
        THEN "ImportFrom" ELSE "error"
    ELSE IF r = <<"try", ":">> THEN "Try"
    ELSE IF r = <<"except", ":">> THEN "ExceptHandler"
    ELSE IF Len(r) = 4 /\ r[1] = "except" /\ r[2] = SP /\ IsIdent(r[3])
            /\ r[4] = ":" THEN "ExceptHandler"
    ELSE IF Len(r) = 4 /\ r[1] = "if" /\ r[2] = SP /\ IsIdent(r[3])
            /\ r[4] = ":" THEN "If"
    ELSE IF Len(r) = 4 /\ r[1] = "while" /\ r[2] = SP /\ IsIdent(r[3])
            /\ r[4] = ":" THEN "While"
    ELSE IF Len(r) = 4 /\ r[1] = "class" /\ r[2] = SP /\ IsIdent(r[3])
            /\ r[4] = ":" THEN "ClassDef"
    ELSE IF Len(r) = 6 /\ r[1] = "def" /\ r[2] = SP /\ IsIdent(r[3])
            /\ r[4] = "(" /\ r[5] = ")" /\ r[6] = ":" THEN "FunctionDef"
    ELSE IF Len(r) = 8 /\ r[1] = "for" /\ r[2] = SP /\ IsIdent(r[3])
            /\ r[4] = SP /\ r[5] = "in" /\ r[6] = SP /\ IsIdent(r[7])
            /\ r[8] = ":" THEN "For"
    ELSE IF r = <<"pass">> THEN "Pass"
    ELSE IF Len(r) = 1 /\ IsIdent(r[1]) THEN "Expr"
    ELSE "error"

FromNode(l, f) ==
    Node("ImportFrom", AliasNames(Drop(f.imp, 2)), f.module, f.level,
         l.lineno, l.indent, <<>>, <<>>)

\* The node of a simple statement of kind k on the logical line
\* l = [lineno, indent, rest].
SimpleNode(l, k) ==
    IF k = "Import"
    THEN Node(k, AliasNames(Drop(l.rest, 2)), <<>>, 0, l.lineno, l.indent,
              <<>>, <<>>)
    ELSE IF k = "ImportFrom" THEN FromNode(l, FromParts(l.rest))
    ELSE Node(k, <<>>, <<>>, 0, l.lineno, l.indent, <<>>, <<>>)

NotBlank(l) == l.rest # <<>>

NumberLines(lines) ==
    [n \in 1..Len(lines) |->
        [lineno |-> n,
         indent |-> CountLead(lines[n], SP),
         rest   |-> TrimLeft(lines[n])]]

\* The non-blank lines of a text, each with its line number and indentation.
LogicalLines(contents) ==
    SelectSeq(NumberLines(SplitOn(contents, NL)), NotBlank)

ParseErr == [err |-> TRUE, nodes |-> <<>>, next |-> 0]

NoNodes(next) == [err |-> FALSE, nodes |-> <<>>, next |-> next]

\* node followed by the statements rest.
Cons(node, rest) ==
    IF rest.err THEN ParseErr
    ELSE [err |-> FALSE, nodes |-> <<node>> \o rest.nodes,
          next |-> rest.next]

\* The statements that hold a block of statements.
Compound == {"Try", "If", "While", "For", "FunctionDef", "ClassDef"}

HasBody(ls, p, ind) == p + 1 <= Len(ls) /\ ls[p + 1].indent > ind

RECURSIVE ParseStmts(_, _, _)
RECURSIVE ParseStmt(_, _, _, _)
RECURSIVE AfterBody(_, _, _, _, _)
RECURSIVE AfterHandlers(_, _, _, _, _, _)
RECURSIVE ParseHandlers(_, _, _)
RECURSIVE HandlerBody(_, _, _, _)

\* The statements of one block: the lines from p on with indentation ind.
ParseStmts(ls, p, ind) ==
    IF p > Len(ls) \/ ls[p].indent < ind THEN NoNodes(p)
    ELSE IF ls[p].indent > ind THEN ParseErr
    ELSE ParseStmt(ls, p, ind, StmtKind(ls[p].rest))

\* The statement of kind k at line p and the statements after it.
ParseStmt(ls, p, ind, k) ==
    IF k \in {"error", "ExceptHandler"} THEN ParseErr
    ELSE IF k \in Compound THEN
        IF HasBody(ls, p, ind)
        THEN AfterBody(ls, p, ind, k,
                       ParseStmts(ls, p + 1, ls[p + 1].indent))
        ELSE ParseErr
    ELSE Cons(SimpleNode(ls[p], k), ParseStmts(ls, p + 1, ind))

AfterBody(ls, p, ind, k, body) ==
    IF body.err THEN ParseErr
    ELSE AfterHandlers(ls, p, ind, k, body,
                       IF k = "Try" THEN ParseHandlers(ls, body.next, ind)
                       ELSE NoNodes(body.next))

\* A try statement needs at least one except clause.
AfterHandlers(ls, p, ind, k, body, hs) ==
    IF hs.err \/ (k = "Try" /\ hs.nodes = <<>>) THEN ParseErr
    ELSE Cons(Node(k, <<>>, <<>>, 0, ls[p].lineno, ls[p].indent,
                   body.nodes, hs.nodes),
              ParseStmts(ls, hs.next, ind))

\* The except clauses that follow a try body, at indentation ind.
ParseHandlers(ls, p, ind) ==
    IF p > Len(ls) \/ ls[p].indent # ind
       \/ StmtKind(ls[p].rest) # "ExceptHandler"
    THEN NoNodes(p)
    ELSE IF HasBody(ls, p, ind)
    THEN HandlerBody(ls, p, ind, ParseStmts(ls, p + 1, ls[p + 1].indent))
    ELSE ParseErr

HandlerBody(ls, p, ind, body) ==
    IF body.err THEN ParseErr
    ELSE Cons(Node("ExceptHandler", <<>>, <<>>, 0, ls[p].lineno,
                   ls[p].indent, body.nodes, <<>>),
              ParseHandlers(ls, body.next, ind))

\* ast.parse(contents): [err |-> TRUE, ...] stands for SyntaxError; else
\* nodes is the body of the Module node.
ast_parse(contents) == ParseStmts(LogicalLines(contents), 1, 0)

(***************************************************************************)
(* ImportLister.  The index _imports (a defaultdict(list)) is a sequence   *)
(* of [mod, metadata] in insertion order; an occurrence is the tuple       *)
(* <<filepath, lineno, col_offset>>.                                       *)
(***************************************************************************)
\* Mutant of ModName: the name is kept whole.
ModName_Whole(name) == name

\* Lines 47-53 and 59-65: the name before the first period.
ModName(name) ==
    IF "." \in Range(name) THEN Head(SplitOn(name, ".")) ELSE name

Keys(d) == {d[k].mod : k \in 1..Len(d)}

\* self._imports[mod].append(meta)
IndexAppend(d, mod, meta) ==
    IF mod \in Keys(d)
    THEN [k \in 1..Len(d) |->
            IF d[k].mod = mod
            THEN [mod |-> mod, metadata |-> Append(d[k].metadata, meta)]
            ELSE d[k]]
    ELSE Append(d, [mod |-> mod, metadata |-> <<meta>>])

RECURSIVE AppendNames(_, _, _, _)
\* The loop "for name in node.names" of visit_Import.
AppendNames(d, fp, node, names) ==
    IF names = <<>> THEN d
    ELSE AppendNames(
            IndexAppend(d, ModName(Head(names)),
                        <<fp, node.lineno, node.col_offset>>),
            fp, node, Tail(names))

visit_Import(d, fp, node) == AppendNames(d, fp, node, node.names)

\* Mutant of visit_ImportFrom: the test of node.level is missing.
visit_ImportFrom_AnyLevel(d, fp, node) ==
    IndexAppend(d, ModName(node.module),
                <<fp, node.lineno, node.col_offset>>)

visit_ImportFrom(d, fp, node) ==
    IF node.level = 0
    THEN IndexAppend(d, ModName(node.module),
                     <<fp, node.lineno, node.col_offset>>)
    ELSE d

RECURSIVE visit(_, _, _)
RECURSIVE VisitSeq(_, _, _)

\* Mutant of visit: generic_visit is missing, so the statements nested in
\* another statement are not reached.
visit_NoDescent(d, fp, node) ==
    IF node.type = "Import" THEN visit_Import(d, fp, node)
    ELSE IF node.type = "ImportFrom" THEN visit_ImportFrom(d, fp, node)
    ELSE d

\* NodeVisitor.visit: dispatch on the node type; generic_visit visits the
\* child statements (the alias children of an import node hold no imports).
visit(d, fp, node) ==
    IF node.type = "Import" THEN visit_Import(d, fp, node)
    ELSE IF node.type = "ImportFrom" THEN visit_ImportFrom(d, fp, node)
    ELSE VisitSeq(d, fp, node.body \o node.handlers)

VisitSeq(d, fp, nodes) ==
    IF nodes = <<>> THEN d
    ELSE VisitSeq(visit(d, fp, Head(nodes)), fp, Tail(nodes))

(***************************************************************************)
(* collect_non_builtins.  The report (a dict) is a sequence of [mod, info] *)
(* in insertion order; info is <<>> for {} and the filtered occurrences    *)
(* otherwise.                                                              *)
(***************************************************************************)
IsZeroCol(meta) == meta[3] = 0

IsPosCol(meta) == meta[3] > 0

\* Mutant of Required: all() in place of any().
Required_All(metadata) == \A k \in 1..Len(metadata) : IsZeroCol(metadata[k])

\* any(map(lambda meta: meta[2] == 0, metadata))
Required(metadata) == \E k \in 1..Len(metadata) : IsZeroCol(metadata[k])

\* The value stored for one module, lines 111-115.
Evidence(metadata) ==
    IF Required(metadata) THEN <<>> ELSE SelectSeq(metadata, IsPosCol)

\* Mutant of Excluded: the flag is not looked at.
Excluded_AnyFlag(mod, exclude_installable, installable) == mod \in installable

\* Line 108: whether the module is left out.
Excluded(mod, exclude_installable, installable) ==
    exclude_installable /\ mod \in installable

\* One iteration of the loop of line 107: the items the module adds.
ReportItem(item, exclude_installable, installable) ==
    IF Excluded(item.mod, exclude_installable, installable) THEN <<>>
    ELSE <<[mod |-> item.mod, info |-> Evidence(item.metadata)]>>

RECURSIVE collect_non_builtins(_, _, _)
collect_non_builtins(d, exclude_installable, installable) ==
    IF d = <<>> THEN <<>>
    ELSE ReportItem(Head(d), exclude_installable, installable)
         \o collect_non_builtins(Tail(d), exclude_installable, installable)

(***************************************************************************)
(* display_imports.  Strings are compared token by token; TokenOrder lists *)
(* the tokens a module name can hold in the order of Python's str.         *)
(***************************************************************************)
TokenOrder ==
    <<".", "a", "b", "bash", "c", "helper", "json", "ls", "math", "os",
      "path", "sys", "time", "ujson", "x">>

Rank(t) == CHOOSE k \in 1..Len(TokenOrder) : TokenOrder[k] = t

RECURSIVE StrLess(_, _)
\* s < t for two strings.
StrLess(s, t) ==
    IF t = <<>> THEN FALSE
    ELSE IF s = <<>> THEN TRUE
    ELSE IF Head(s) = Head(t) THEN StrLess(Tail(s), Tail(t))
    ELSE Rank(Head(s)) < Rank(Head(t))

RECURSIVE SortedInsert(_, _)
SortedInsert(sorted, e) ==
    IF sorted = <<>> THEN <<e>>
    ELSE IF StrLess(e.mod, Head(sorted).mod) THEN <<e>> \o sorted
    ELSE <<Head(sorted)>> \o SortedInsert(Tail(sorted), e)

\* Mutant of SortByMod: the report is printed in its own order.
SortByMod_Unsorted(report) == report

RECURSIVE SortByMod(_)
\* for mod in sorted(mods_to_display)
SortByMod(report) ==
    IF report = <<>> THEN <<>>
    ELSE SortedInsert(SortByMod(Tail(report)), Head(report))

\* What display_imports prints: the count, then one line per module.
display_imports(report) ==
    [shown |-> TRUE, count |-> Len(report), lines |-> SortByMod(report)]

(***************************************************************************)
(* The file system the scanner runs on: a small corpus.  Every path has    *)
(*   kind       "file", "dir" or "absent"   (os.path.isfile / isdir)       *)
(*   ext        os.path.splitext(name.lower())[-1]                         *)
(*   walk       for a directory, the files os.walk finds under it          *)
(*   still_file os.path.isfile when the scan reaches it (line 159)         *)
(*   readable   whether open / read succeed (the mode 'rU' of line 161 is  *)
(*              one that interpreters before Python 3.11 accept)           *)
(*   text       the contents of a source file                              *)
(*   nb         the document of a notebook                                 *)
(***************************************************************************)
NoNb == [json_ok |-> TRUE, has_cells |-> TRUE, cells |-> <<>>]

SrcFile(text) ==
    [kind |-> "file", ext |-> ".py", walk |-> <<>>, still_file |-> TRUE,
     readable |-> TRUE, text |-> text, nb |-> NoNb]

NbFile(nb) ==
    [kind |-> "file", ext |-> ".ipynb", walk |-> <<>>, still_file |-> TRUE,
     readable |-> TRUE, text |-> <<>>, nb |-> nb]

Other(kind, ext, walk) ==
    [kind |-> kind, ext |-> ext, walk |-> walk, still_file |-> kind = "file",
     readable |-> TRUE, text |-> <<>>, nb |-> NoNb]

Cell(type, source) == [cell_type |-> type, source |-> source]

\* import sys
SysText == <<"import", SP, "sys">>

\* try:
\*   import ujson as json
\* except x:
\*   import json
\* import a.b, a
OptText ==
    <<"try", ":", NL,
      SP, SP, "import", SP, "ujson", SP, "as", SP, "json", NL,
      "except", SP, "x", ":", NL,
      SP, SP, "import", SP, "json", NL,
      "import", SP, "a", ".", "b", ",", SP, "a", NL>>

\* import os
\* if c:
\*   import sys, math
MixText ==
    <<"import", SP, "os", NL,
      "if", SP, "c", ":", NL,
      SP, SP, "import", SP, "sys", ",", SP, "math", NL>>

\* from . import helper
\* from .a import x
RelText ==
    <<"from", SP, ".", SP, "import", SP, "helper", NL,
      "from", SP, ".", "a", SP, "import", SP, "x", NL>>

\* x
\*  !ls
\* import a.b.c, os
\* from math.x import c
DotText ==
    <<"x", NL,
      SP, "!", "ls", NL,
      "import", SP, "a", ".", "b", ".", "c", ",", SP, "os", NL,
      "from", SP, "math", ".", "x", SP, "import", SP, "c", NL>>

\* import math
\* import
BadText == <<"import", SP, "math", NL, "import", NL>>

\* class c:
\*   def x():
\*     for a in b:
\*       while c:
\*         import os.path, json
\*         from . import x
\*         from sys import x
\*     import os
DeepText ==
    <<"class", SP, "c", ":", NL,
      SP, SP, "def", SP, "x", "(", ")", ":", NL,
      SP, SP, SP, SP, "for", SP, "a", SP, "in", SP, "b", ":", NL,
      SP, SP, SP, SP, SP, SP, "while", SP, "c", ":", NL,
      SP, SP, SP, SP, SP, SP, SP, SP,
          "import", SP, "os", ".", "path", ",", SP, "json", NL,
      SP, SP, SP, SP, SP, SP, SP, SP,
          "from", SP, ".", SP, "import", SP, "x", NL,
      SP, SP, SP, SP, SP, SP, SP, SP,
          "from", SP, "sys", SP, "import", SP, "x", NL,
      SP, SP, SP, SP, "import", SP, "os", NL>>

\* %time x
\* import os
MagicText == <<"%", "time", SP, "x", NL, "import", SP, "os", NL>>

\* %%bash / import ujson | (markdown) import x | !ls / import math /  %time x
NbDoc ==
    [json_ok |-> TRUE, has_cells |-> TRUE,
     cells |-> <<Cell("code", << <<"%", "%", "bash", NL>>,
                                 <<"import", SP, "ujson", NL>> >>),
                 Cell("markdown", << <<"import", SP, "x">> >>),
                 Cell("code", << <<"!", "ls", NL>>,
                                 <<"import", SP, "math", NL>>,
                                 <<SP, "%", "time", SP, "x">> >>)>>]

BrokenDoc == [json_ok |-> FALSE, has_cells |-> FALSE, cells |-> <<>>]

Paths ==
    {"sys.py", "opt.py", "mix.py", "rel.py", "bad.py", "magic.py",
     "deep.py", "locked.py", "tmp.py", "broken.ipynb", "proj", "proj/dot.py",
     "proj/README.txt", "proj/NB.IPYNB", "docs", "docs/notes.txt", "ghost"}

FS ==
    [p \in Paths |->
        CASE p = "sys.py"       -> SrcFile(SysText)
          [] p = "opt.py"       -> SrcFile(OptText)
          [] p = "mix.py"       -> SrcFile(MixText)
          [] p = "rel.py"       -> SrcFile(RelText)
          [] p = "bad.py"       -> SrcFile(BadText)
          [] p = "magic.py"     -> SrcFile(MagicText)
          [] p = "deep.py"      -> SrcFile(DeepText)
          [] p = "locked.py"    -> [SrcFile(SysText) EXCEPT !.readable = FALSE]
          [] p = "tmp.py"       -> [SrcFile(SysText) EXCEPT !.still_file = FALSE]
          [] p = "broken.ipynb" -> NbFile(BrokenDoc)
          [] p = "proj"         ->
               Other("dir", "",
                     <<"proj/dot.py", "proj/README.txt", "proj/NB.IPYNB">>)
          [] p = "proj/dot.py"  -> SrcFile(DotText)
          [] p = "proj/README.txt" -> Other("file", ".txt", <<>>)
          [] p = "proj/NB.IPYNB"   -> NbFile(NbDoc)
          [] p = "docs"         -> Other("dir", "", <<"docs/notes.txt">>)
          [] p = "docs/notes.txt"  -> Other("file", ".txt", <<>>)
          [] p = "ghost"        -> Other("absent", "", <<>>)]

\* The paths a caller names on the command line.
ArgPaths ==
    {"sys.py", "opt.py", "mix.py", "rel.py", "bad.py", "magic.py",
     "deep.py", "locked.py", "tmp.py", "broken.ipynb", "proj", "docs",
     "ghost"}

\* The sets sys.builtin_module_names + pkgutil.iter_modules() may give.
Catalogs == {{}, {<<"os">>, <<"sys">>, <<"json">>}}

\* Number of file_or_directory arguments (nargs='+': at least one).
MaxArgs == 2

\* filepath.lower().endswith('.ipynb'), line 164.
IsIpynb(p) == FS[p].ext = ".ipynb"

\* A file as the extraction sees it.
FileOf(p) ==
    [readable |-> FS[p].readable, is_ipynb |-> IsIpynb(p),
     text |-> FS[p].text, nb |-> FS[p].nb]

(***************************************************************************)
(* get_filepaths.                                                          *)
(***************************************************************************)
HasExt(p) == FS[p].ext \in {".py", ".ipynb"}

\* Mutant of ArgOk: the assertion is missing.
ArgOk_Always(thing) == TRUE

\* The assertion of line 78 for one argument.
ArgOk(thing) == FS[thing].kind \in {"file", "dir"}

RECURSIVE get_filepaths(_)
\* The list returned when no assertion fails.
get_filepaths(things) ==
    IF things = <<>> THEN <<>>
    ELSE (IF FS[Head(things)].kind = "file" THEN <<Head(things)>>
          ELSE SelectSeq(FS[Head(things)].walk, HasExt))
         \o get_filepaths(Tail(things))

AllArgsOk(things) == \A k \in 1..Len(things) : ArgOk(things[k])

(***************************************************************************)
(* main.  pc follows the function: "get_filepaths" (line 152), "loop"      *)
(* (line 157), "extract" (161-173), "strip" (174-178), "parse" (179-182),  *)
(* "visit" (183), "display" (190), then "done", or "raised" when an        *)
(* exception leaves main.                                                  *)
(***************************************************************************)
VARIABLES
    argv,                 \* args.file_or_directory
    exclude_installed,    \* args.exclude_installed
    installable_modules,  \* the catalog of the environment
    filepaths,            \* the result of get_filepaths
    i,                    \* position of the loop of line 157 in filepaths
    filepath,             \* import_lister.filepath
    contents,             \* the local variable contents
    imports,              \* import_lister._imports
    tree,                 \* the local variable tree
    mods_to_display,      \* the result of collect_non_builtins
    stdout,               \* what display_imports printed
    pc,                   \* where main is
    exc                   \* the exception main ended with, or "none"

vars ==
    <<argv, exclude_installed, installable_modules, filepaths, i, filepath,
      contents, imports, tree, mods_to_display, stdout, pc, exc>>

RECURSIVE SeqsUpTo(_, _)
\* The sequences over S of length 1..n.
SeqsUpTo(S, n) ==
    IF n = 0 THEN {}
    ELSE SeqsUpTo(S, n - 1) \cup [1..n -> S]

\* tree before its first assignment.
Unbound == [bound |-> FALSE, body |-> <<>>]

NoOutput == [shown |-> FALSE, count |-> 0, lines |-> <<>>]

Init ==
    /\ argv \in SeqsUpTo(ArgPaths, MaxArgs)
    /\ exclude_installed \in BOOLEAN
    /\ installable_modules \in Catalogs
    /\ filepaths = <<>>
    /\ i = 1
    /\ filepath = "None"
    /\ contents = <<>>
    /\ imports = <<>>
    /\ tree = Unbound
    /\ mods_to_display = <<>>
    /\ stdout = NoOutput
    /\ pc = "get_filepaths"
    /\ exc = "none"

Raise(e) ==
    /\ pc' = "raised"
    /\ exc' = e

\* Line 152, an argument that is neither a file nor a directory.
GetFilepathsAssert ==
    /\ pc = "get_filepaths"
    /\ ~AllArgsOk(argv)
    /\ Raise("AssertionError")
    /\ UNCHANGED <<argv, exclude_installed, installable_modules, filepaths,
                   i, filepath, contents, imports, tree, mods_to_display,
                   stdout>>

\* Line 152.
GetFilepaths ==
    /\ pc = "get_filepaths"
    /\ AllArgsOk(argv)
    /\ filepaths' = get_filepaths(argv)
    /\ pc' = "loop"
    /\ UNCHANGED <<argv, exclude_installed, installable_modules, i,
                   filepath, contents, imports, tree, mods_to_display,
                   stdout, exc>>

\* Lines 157-160: the next path is no file any more.
LoopSkip ==
    /\ pc = "loop"
    /\ i <= Len(filepaths)
    /\ ~FS[filepaths[i]].still_file
    /\ filepath' = filepaths[i]
    /\ i' = i + 1
    /\ UNCHANGED <<argv, exclude_installed, installable_modules, filepaths,
                   contents, imports, tree, mods_to_display, stdout, pc,
                   exc>>

\* Lines 157-163: the next path is a file.
LoopEnter ==
    /\ pc = "loop"
    /\ i <= Len(filepaths)
    /\ FS[filepaths[i]].still_file
    /\ filepath' = filepaths[i]
    /\ contents' = <<>>
    /\ pc' = "extract"
    /\ UNCHANGED <<argv, exclude_installed, installable_modules, filepaths,
                   i, imports, tree, mods_to_display, stdout, exc>>

\* Lines 161-173: open, read, json.load or the cell loop raises.
ExtractRaise ==
    /\ pc = "extract"
    /\ ExtractError(FileOf(filepath)) # "none"
    /\ Raise(ExtractError(FileOf(filepath)))
    /\ UNCHANGED <<argv, exclude_installed, installable_modules, filepaths,
                   i, filepath, contents, imports, tree, mods_to_display,
                   stdout>>

\* Lines 161-173.
Extract ==
    /\ pc = "extract"
    /\ ExtractError(FileOf(filepath)) = "none"
    /\ contents' = RawContents(FileOf(filepath))
    /\ pc' = "strip"
    /\ UNCHANGED <<argv, exclude_installed, installable_modules, filepaths,
                   i, filepath, imports, tree, mods_to_display, stdout,
                   exc>>

\* Lines 174-178.
Strip ==
    /\ pc = "strip"
    /\ contents' = StripMagics(contents)
    /\ pc' = "parse"
    /\ UNCHANGED <<argv, exclude_installed, installable_modules, filepaths,
                   i, filepath, imports, tree, mods_to_display, stdout,
                   exc>>

\* tree after the try statement of lines 179-182, r being what ast.parse
\* gives: a SyntaxError is logged and leaves tree as it was.
TreeAfterParse(old, r) ==
    IF r.err THEN old ELSE [bound |-> TRUE, body |-> r.nodes]

\* Lines 179-182.
Parse ==
    /\ pc = "parse"
    /\ tree' = TreeAfterParse(tree, ast_parse(contents))
    /\ pc' = "visit"
    /\ UNCHANGED <<argv, exclude_installed, installable_modules, filepaths,
                   i, filepath, contents, imports, mods_to_display, stdout,
                   exc>>

\* Line 183 with tree never assigned.
VisitUnbound ==
    /\ pc = "visit"
    /\ ~tree.bound
    /\ Raise("UnboundLocalError")
    /\ UNCHANGED <<argv, exclude_installed, installable_modules, filepaths,
                   i, filepath, contents, imports, tree, mods_to_display,
                   stdout>>

\* Line 183, and the step of the loop.
Visit ==
    /\ pc = "visit"
    /\ tree.bound
    /\ imports' = VisitSeq(imports, filepath, tree.body)
    /\ i' = i + 1
    /\ pc' = "loop"
    /\ UNCHANGED <<argv, exclude_installed, installable_modules, filepaths,
                   filepath, contents, tree, mods_to_display, stdout, exc>>

\* Lines 185-188.
Collect ==
    /\ pc = "loop"
    /\ i > Len(filepaths)
    /\ mods_to_display' =
          collect_non_builtins(imports, exclude_installed,
                               installable_modules)
    /\ pc' = "display"
    /\ UNCHANGED <<argv, exclude_installed, installable_modules, filepaths,
                   i, filepath, contents, imports, tree, stdout, exc>>

\* Lines 190-191.
Display ==
    /\ pc = "display"
    /\ stdout' = IF mods_to_display # <<>>
                 THEN display_imports(mods_to_display)
                 ELSE stdout
    /\ pc' = "done"
    /\ UNCHANGED <<argv, exclude_installed, installable_modules, filepaths,
                   i, filepath, contents, imports, tree, mods_to_display,
                   exc>>

Next ==
    \/ GetFilepathsAssert
    \/ GetFilepaths
    \/ LoopSkip
    \/ LoopEnter
    \/ ExtractRaise
    \/ Extract
    \/ Strip
    \/ Parse
    \/ VisitUnbound
    \/ Visit
    \/ Collect
    \/ Display

Spec == Init /\ [][Next]_vars

(***************************************************************************)
(* Definitions the properties below are stated with.                       *)
(***************************************************************************)
Reported == pc \in {"display", "done"}

\* The occurrences the index d holds for module m.
OccurrencesOf(d, m) == (CHOOSE e \in Range(d) : e.mod = m).metadata

\* Every occurrence of an index, with its module.
AllOccurrences(d) ==
    UNION {{[mod |-> d[k].mod, occ |-> d[k].metadata[n]] :
                n \in 1..Len(d[k].metadata)} : k \in 1..Len(d)}

RECURSIVE AllNodes(_)
\* The nodes of a list of statements, at any depth.
AllNodes(nodes) ==
    IF nodes = <<>> THEN {}
    ELSE {Head(nodes)}
         \cup AllNodes(Head(nodes).body \o Head(nodes).handlers)
         \cup AllNodes(Tail(nodes))

IsRelative(n) == n.type = "ImportFrom" /\ n.level > 0

\* The import targets of the statements that are not relative imports.
Targets(nodes) ==
    UNION {IF n.type = "Import" THEN Range(n.names)
           ELSE IF n.type = "ImportFrom" /\ n.level = 0 THEN {n.module}
           ELSE {} : n \in AllNodes(nodes)}

\* What a file gives when it is extracted, stripped and parsed.
ParseOf(p) == ast_parse(StripMagics(RawContents(FileOf(p))))

\* Whether the scan reads and parses the file at path p.
Parseable(p) ==
    /\ FS[p].still_file
    /\ ExtractError(FileOf(p)) = "none"
    /\ ~ParseOf(p).err

RECURSIVE IndexOfParseable(_, _)
\* The index built from the parseable files of a list alone.
IndexOfParseable(paths, d) ==
    IF paths = <<>> THEN d
    ELSE IndexOfParseable(
            Tail(paths),
            IF Parseable(Head(paths))
            THEN VisitSeq(d, Head(paths), ParseOf(Head(paths)).nodes)
            ELSE d)

(***************************************************************************)
(* C1: a file that fails to parse does not abort the scan and contributes  *)
(* no occurrence: the scan never ends in the error of line 183, and the    *)
(* final index is the index built from the parseable files alone.          *)
(***************************************************************************)
C1_UnparseableFilesContributeNothing ==
    /\ exc # "UnboundLocalError"
    /\ Reported => imports = IndexOfParseable(filepaths, <<>>)

(***************************************************************************)
(* C2: a module kept in the report is required (empty evidence) iff one of *)
(* its occurrences in the index has column offset 0; otherwise its         *)
(* evidence is the non-empty sequence of its occurrences, all with column  *)
(* offset > 0, in index order.                                             *)
(***************************************************************************)
C2_Classification ==
    Reported =>
        \A k \in 1..Len(mods_to_display) :
            /\ mods_to_display[k].mod \in Keys(imports)
            /\ IF \E o \in Range(OccurrencesOf(imports,
                                               mods_to_display[k].mod)) :
                     o[3] = 0
               THEN mods_to_display[k].info = <<>>
               ELSE /\ mods_to_display[k].info # <<>>
                    /\ mods_to_display[k].info =
                          OccurrencesOf(imports, mods_to_display[k].mod)
                    /\ \A o \in Range(mods_to_display[k].info) : o[3] > 0

\* A module with a nested occurrence in one file and a top-level one in
\* another is reported as required, next to an optional module.
C2_Witness ==
    /\ pc = "done"
    /\ \E e \in Range(imports) :
          /\ \E o1, o2 \in Range(e.metadata) :
                o1[3] > 0 /\ o2[3] = 0 /\ o1[1] # o2[1]
          /\ [mod |-> e.mod, info |-> <<>>] \in Range(mods_to_display)
    /\ \E r \in Range(mods_to_display) : r.info # <<>>

(***************************************************************************)
(* C3: a code cell whose first source line begins with %% is left out of   *)
(* the concatenated source: every module recorded for a notebook is also   *)
(* imported by the notebook without its %% cells.                          *)
(***************************************************************************)
NotMagicCell(cell) ==
    ~(cell.source # <<>> /\ StartsWith(cell.source[1], <<"%", "%">>))

\* The index of notebook p alone, its %% cells removed beforehand.
IndexWithoutMagicCells(p) ==
    VisitSeq(<<>>, p,
             ast_parse(StripMagics(NotebookContents(
                 SelectSeq(FS[p].nb.cells, NotMagicCell)))).nodes)

C3_MagicCellsExcluded ==
    \A e \in AllOccurrences(imports) :
        IsIpynb(e.occ[1]) =>
            e.mod \in Keys(IndexWithoutMagicCells(e.occ[1]))

(***************************************************************************)
(* C4: a from-import with relative level > 0 adds no occurrence: every     *)
(* occurrence a traversal adds has the line and column of an import        *)
(* statement of the tree that is not a relative import; and when every     *)
(* scanned source consists of relative imports only, the report is empty.  *)
(***************************************************************************)
OldLen(d, m) == IF m \in Keys(d) THEN Len(OccurrencesOf(d, m)) ELSE 0

\* The occurrences index d2 holds beyond those of d.
Added(d, d2) ==
    UNION {{d2[k].metadata[n] :
                n \in (OldLen(d, d2[k].mod) + 1)..Len(d2[k].metadata)} :
           k \in 1..Len(d2)}

IsImportNode(n) == n.type \in {"Import", "ImportFrom"}

\* Whether every statement of the file at p is a relative import.
OnlyRelative(p) ==
    /\ Parseable(p)
    /\ ParseOf(p).nodes # <<>>
    /\ \A n \in AllNodes(ParseOf(p).nodes) : IsRelative(n)

C4_VisitStep ==
    (pc = "visit" /\ tree.bound) =>
        \A o \in Added(imports, imports') :
            \E n \in AllNodes(tree.body) :
                /\ IsImportNode(n) /\ ~IsRelative(n)
                /\ n.lineno = o[2] /\ n.col_offset = o[3]

C4_OnlyRelativeReport ==
    (Reported /\ \A k \in 1..Len(filepaths) : OnlyRelative(filepaths[k]))
        => (imports = <<>> /\ mods_to_display = <<>>)

C4_RelativeImportsAddNothing ==
    []C4_OnlyRelativeReport /\ [][C4_VisitStep]_vars

\* The scan has traversed a tree that holds relative imports and is done,
\* with nothing recorded.
C4_Witness ==
    /\ pc = "done"
    /\ filepaths # <<>>
    /\ tree.bound
    /\ \E n \in AllNodes(tree.body) : IsRelative(n)
    /\ mods_to_display = <<>>

(***************************************************************************)
(* C5: every key of the index is the leading segment of the import target  *)
(* it was recorded for: no key holds a ".", and a traversal adds exactly   *)
(* the leading segments of the targets of the tree as keys, so that a,     *)
(* a.b and a.b.c are recorded under the single key a.                      *)
(***************************************************************************)
C5_NoDotInKey ==
    \A k \in 1..Len(imports) :
        /\ "." \notin Range(imports[k].mod)
        /\ \A j \in 1..Len(imports) : imports[j].mod = imports[k].mod => j = k

C5_VisitStep ==
    (pc = "visit" /\ tree.bound) =>
        Keys(imports') =
            Keys(imports) \cup {<<t[1]>> : t \in Targets(tree.body)}

C5_KeysAreLeadingSegments == []C5_NoDotInKey /\ [][C5_VisitStep]_vars

\* The targets a.b.c (proj/dot.py) and a.b, a (opt.py) under the key a.
C5_Witness ==
    /\ pc = "done"
    /\ <<"a">> \in Keys(imports)
    /\ {o[1] : o \in Range(OccurrencesOf(imports, <<"a">>))}
          = {"proj/dot.py", "opt.py"}
    /\ Len(OccurrencesOf(imports, <<"a">>)) = 3

(***************************************************************************)
(* C6: with the exclude flag the keys of the report are the keys of the    *)
(* index that are not in the catalog; without it they are all the keys of  *)
(* the index, whatever the catalog holds.                                  *)
(***************************************************************************)
C6_CatalogFilter ==
    Reported =>
        Keys(mods_to_display) =
            IF exclude_installed THEN Keys(imports) \ installable_modules
            ELSE Keys(imports)

\* A required and an optional catalog module are both dropped, and a
\* module outside the catalog is kept.
C6_Witness ==
    /\ pc = "done"
    /\ exclude_installed
    /\ \E e1, e2 \in Range(imports) :
          /\ e1.mod \in installable_modules
          /\ e2.mod \in installable_modules
          /\ \E o \in Range(e1.metadata) : o[3] = 0
          /\ \A o \in Range(e2.metadata) : o[3] > 0
    /\ mods_to_display # <<>>

(***************************************************************************)
(* C7: a file whose extraction fails (unreadable file, malformed notebook) *)
(* is skipped and the scan goes on to the report: the scan never ends in   *)
(* an error of the extraction.                                             *)
(***************************************************************************)
ExtractionErrors == {"OSError", "JSONDecodeError", "KeyError", "IndexError"}

C7_ExtractionFailureSkipsFile ==
    pc = "raised" => exc \notin ExtractionErrors

(***************************************************************************)
(* C8, as stated: with an argument that is neither a file nor a directory, *)
(* or with an empty list of candidate files, the scan ends in a fatal      *)
(* error and never completes normally.                                     *)
(***************************************************************************)
HasAbsentArg == \E k \in 1..Len(argv) : FS[argv[k]].kind = "absent"

Enumerated == pc # "get_filepaths"

C8_InvalidInputIsFatal ==
    /\ (Enumerated /\ HasAbsentArg) => pc = "raised"
    /\ (Enumerated /\ ~HasAbsentArg /\ filepaths = <<>>) =>
          pc \notin {"display", "done"}

(***************************************************************************)
(* C8, amended: an argument that is neither a file nor a directory ends    *)
(* the scan with the AssertionError of get_filepaths, nothing scanned or   *)
(* printed; an empty list of candidate files is no error: the scan runs    *)
(* to its end with an empty report and prints nothing.                     *)
(***************************************************************************)
C8_AbsentArgFatalEmptyListSilent ==
    /\ (Enumerated /\ HasAbsentArg) =>
          /\ pc = "raised" /\ exc = "AssertionError"
          /\ filepaths = <<>> /\ imports = <<>> /\ stdout = NoOutput
    /\ (Enumerated /\ ~HasAbsentArg /\ filepaths = <<>>) =>
          /\ pc \in {"loop", "display", "done"} /\ exc = "none"
          /\ imports = <<>> /\ mods_to_display = <<>> /\ stdout = NoOutput

\* A directory without source files was scanned to the end.
C8_Witness ==
    /\ pc = "done"
    /\ ~HasAbsentArg
    /\ filepaths = <<>>
    /\ \E k \in 1..Len(argv) : FS[argv[k]].kind = "dir"

(***************************************************************************)
(* C9, as stated: the report collect_non_builtins returns iterates its     *)
(* module names in lexicographic order.                                    *)
(***************************************************************************)
Increasing(entries) ==
    \A k \in 1..(Len(entries) - 1) :
        StrLess(entries[k].mod, entries[k + 1].mod)

InOrderOf(s, t) ==
    \A j, k \in 1..Len(s) :
        j < k => \E m, n \in 1..Len(t) : m < n /\ t[m] = s[j] /\ t[n] = s[k]

ModsOf(entries) == [k \in 1..Len(entries) |-> entries[k].mod]

MagicLead(t) ==
    /\ t # <<>>
    /\ \/ t[1] = "!"
       \/ t[1] = "%" /\ Len(t) >= 2 /\ IsLetter(t[2])

IsMagicLine(line) == MagicLead(TrimLeft(line))

NotMagicLine(line) == ~IsMagicLine(line)

C10_MagicLinesStripped ==
    pc = "parse" =>
        SplitOn(contents, NL) =
            SelectSeq(SplitOn(RawContents(FileOf(filepath)), NL),
                      NotMagicLine)

(***************************************************************************)
(* C11: every occurrence <<path, line, col>> of the index, recorded for    *)
(* module m, carries the path of a file whose own extracted source has, at *)
(* that line and at that column, an import statement with a target whose   *)
(* leading segment is m.                                                   *)
(***************************************************************************)
\* The numbered lines of the source extracted from the file at path p.
ExtractedLines(p) ==
    NumberLines(SplitOn(StripMagics(RawContents(FileOf(p))), NL))

\* The targets the import statement on the line l names (none when the line
\* is no import statement, or a relative one).
TargetsOfLine(l) ==
    IF StmtKind(l.rest) \in {"Import", "ImportFrom"}
    THEN Targets(<<SimpleNode(l, StmtKind(l.rest))>>)
    ELSE {}

SourceHasImportAt(p, m, line, col) ==
    /\ ExtractError(FileOf(p)) = "none"
    /\ line \in 1..Len(ExtractedLines(p))
    /\ ExtractedLines(p)[line].indent = col
    /\ \E t \in TargetsOfLine(ExtractedLines(p)[line]) : <<t[1]>> = m

C11_OccurrencePathIsItsFile ==
    \A e \in AllOccurrences(imports) :
        SourceHasImportAt(e.occ[1], e.mod, e.occ[2], e.occ[3])

(***************************************************************************)
(* C12: one traversal of a tree appends, for every module, exactly the     *)
(* occurrences <<path, line, col>> of the non-relative import targets of   *)
(* the tree with that leading segment, one per target and in the order of  *)
(* the statements, at any nesting depth, and leaves the occurrences the    *)
(* index held before as they were; and the scan of the try/except source   *)
(* of opt.py alone gives ujson and json one occurrence each, at the lines  *)
(* of their statements and with column offset 2.                           *)
(***************************************************************************)
RECURSIVE Preorder(_)
\* The statements of a list, nested ones included, in the order of the text.
Preorder(nodes) ==
    IF nodes = <<>> THEN <<>>
    ELSE <<Head(nodes)>>
         \o Preorder(Head(nodes).body \o Head(nodes).handlers)
         \o Preorder(Tail(nodes))

\* The occurrences statement n is to add under path fp, one per target.
ExpectedOf(fp, n) ==
    IF n.type = "Import"
    THEN [k \in 1..Len(n.names) |->
            [mod |-> <<n.names[k][1]>>,
             occ |-> <<fp, n.lineno, n.col_offset>>]]
    ELSE IF n.type = "ImportFrom" /\ n.level = 0
    THEN <<[mod |-> <<n.module[1]>>, occ |-> <<fp, n.lineno, n.col_offset>>]>>
    ELSE <<>>

RECURSIVE ExpectedSeq(_, _)
ExpectedSeq(fp, ns) ==
    IF ns = <<>> THEN <<>>
    ELSE ExpectedOf(fp, Head(ns)) \o ExpectedSeq(fp, Tail(ns))

\* The occurrences of module m among the expected ones, in order.
ExpectedFor(m, expected) ==
    LET IsM(e) == e.mod = m
        sel == SelectSeq(expected, IsM)
    IN  [k \in 1..Len(sel) |-> sel[k].occ]

\* The occurrences index d2 holds for m beyond those index d holds.
NewOf(d, d2, m) ==
    IF m \in Keys(d2) THEN Drop(OccurrencesOf(d2, m), OldLen(d, m))
    ELSE <<>>

C12_VisitStep ==
    (pc = "visit" /\ tree.bound) =>
        /\ \A m \in Keys(imports') \cup
                    {e.mod : e \in
                        Range(ExpectedSeq(filepath, Preorder(tree.body)))} :
              NewOf(imports, imports', m) =
                 ExpectedFor(m, ExpectedSeq(filepath, Preorder(tree.body)))
        /\ \A m \in Keys(imports) :
              /\ m \in Keys(imports')
              /\ Take(OccurrencesOf(imports', m), OldLen(imports, m))
                    = OccurrencesOf(imports, m)

C12_TryExcept ==
    (Reported /\ filepaths = <<"opt.py">>) =>
        /\ {<<"ujson">>, <<"json">>} \subseteq Keys(imports)
        /\ OccurrencesOf(imports, <<"ujson">>) = << <<"opt.py", 2, 2>> >>
        /\ OccurrencesOf(imports, <<"json">>) = << <<"opt.py", 4, 2>> >>

C12_OneOccurrencePerTarget == []C12_TryExcept /\ [][C12_VisitStep]_vars

\* opt.py, then deep.py, whose import of os.path and json is nested in a
\* class, a function and two loops: json has the occurrence of the except
\* handler and one of the two of that statement, os the other one.
C12_Witness ==
    /\ pc = "done"
    /\ filepaths = <<"opt.py", "deep.py">>
    /\ {<<"ujson">>, <<"json">>, <<"os">>} \subseteq Keys(imports)
    /\ OccurrencesOf(imports, <<"ujson">>) = << <<"opt.py", 2, 2>> >>
    /\ OccurrencesOf(imports, <<"json">>)
          = << <<"opt.py", 4, 2>>, <<"deep.py", 5, 8>> >>
    /\ OccurrencesOf(imports, <<"os">>)
          = << <<"deep.py", 5, 8>>, <<"deep.py", 8, 4>> >>
====
